---------------------------- MODULE Spec2Model ----------------------------
(***************************************************************************)
(* Model of examples/llm-proxies/openai-gpt4-proxy.py: an HTTP proxy that  *)
(* accepts Gemini-style generateContent requests, translates them to an    *)
(* OpenAI chat-completions request, calls the upstream, and translates the *)
(* answer back.                                                            *)
(*                                                                         *)
(* Conventions.  A Python dict is a TLA+ record whose DOMAIN is the set of *)
(* keys that are present, so d.get(k, default) is Get(d, k, default).  A   *)
(* Python str is a sequence of tokens; a token is either a single          *)
(* whitespace character (" ", "\n") or a chunk of non-whitespace text.     *)
(* A function that may raise returns [ok |-> TRUE, val |-> v] or           *)
(* [ok |-> FALSE, err |-> message].                                        *)
(***************************************************************************)
EXTENDS Integers, Sequences, FiniteSets, TLC

VARIABLES
    pc,               \* position of the server / handler
    req,              \* the inbound request being handled
    connUp,           \* the client's connection is still open
    wire,             \* what the handler has written for this request
    gemini_request,   \* do_POST local (line 93)
    openai_request,   \* do_POST local (line 94)
    openai_response,  \* do_POST local (line 99)
    gemini_response,  \* do_POST local (line 102)
    exc,              \* the exception caught at line 113
    upstream,         \* what the target API did for this request
    decoded,          \* the request body has been handed to json.loads
    calls,            \* outbound calls made for this request
    served,           \* requests the server loop has finished
    tpc,              \* translator harness: position
    tin,              \* translator harness: input
    tout              \* translator harness: result

vars == <<pc, req, connUp, wire, gemini_request, openai_request,
          openai_response, gemini_response, exc, upstream, decoded, calls,
          served, tpc, tin, tout>>

handlerVars == <<pc, req, connUp, wire, gemini_request, openai_request,
                 openai_response, gemini_response, exc, upstream, decoded,
                 calls, served>>

harnessVars == <<tpc, tin, tout>>

-----------------------------------------------------------------------------
(* Bounds of the model.                                                    *)

MaxContents == 2
MaxTools == 2
MaxChoices == 2
MaxToolCalls == 2
MaxRequests == 2

-----------------------------------------------------------------------------
(* Python building blocks.                                                 *)

None == [none |-> TRUE]

Ok(v) == [ok |-> TRUE, val |-> v]

Raise(msg) == [ok |-> FALSE, err |-> msg]

Get(d, k, default) == IF k \in DOMAIN d THEN d[k] ELSE default

SeqsUpTo(S, n) == UNION {[1..k -> S] : k \in 0..n}

\* A decoded JSON document that is not an object (a list, a number, ...).
NonMapping == [nonmapping |-> "list"]

IsMapping(v) == "nonmapping" \notin DOMAIN v

Whitespace == {" ", "\n"}

RECURSIVE LStrip(_)
LStrip(s) ==
    IF s # <<>> /\ Head(s) \in Whitespace THEN LStrip(Tail(s)) ELSE s

RECURSIVE RStrip(_)
RStrip(s) ==
    IF s # <<>> /\ s[Len(s)] \in Whitespace
    THEN RStrip(SubSeq(s, 1, Len(s) - 1))
    ELSE s

\* A plausible slip: only the leading whitespace is removed.
StripLeadingOnly(s) == LStrip(s)

\* str.strip()
Strip(s) == RStrip(LStrip(s))

-----------------------------------------------------------------------------
(* _convert_gemini_to_openai (lines 136-196).                              *)

OPENAI_MODEL == "gpt-4o"

\* f"\n[Function Call: {part['functionCall'].get('name', 'unknown')}]"
FunctionCallMarker(part) ==
    <<"\n", "[Function Call: ">>
        \o Get(part.functionCall, "name", <<"unknown">>) \o <<"]">>

\* One iteration of the loop over parts (lines 155-158).
AppendPart(message_content, part) ==
    LET withText == IF "text" \in DOMAIN part
                    THEN message_content \o part.text
                    ELSE message_content
    IN  IF "functionCall" \in DOMAIN part
        THEN withText \o FunctionCallMarker(part)
        ELSE withText

\* The loop over parts (lines 152-158).
RECURSIVE MessageContent(_, _)
MessageContent(parts, message_content) ==
    IF parts = <<>>
    THEN message_content
    ELSE MessageContent(Tail(parts), AppendPart(message_content, Head(parts)))

\* 'assistant' if role == 'model' else role
OpenaiRole(role) == IF role = "model" THEN "assistant" ELSE role

\* One iteration of the loop over contents (lines 147-164).
AppendContent(messages, content) ==
    LET role == Get(content, "role", "<None>")
    IN  IF role \in {"user", "model"}
        THEN LET message_content ==
                     MessageContent(Get(content, "parts", <<>>), <<>>)
             IN  IF Strip(message_content) # <<>>
                 THEN Append(messages, [role |-> OpenaiRole(role),
                                        content |-> Strip(message_content)])
                 ELSE messages
        ELSE messages

\* The loop over contents (lines 143-164).
RECURSIVE ConvertContents(_, _)
ConvertContents(contents, messages) ==
    IF contents = <<>>
    THEN messages
    ELSE ConvertContents(Tail(contents), AppendContent(messages, Head(contents)))

\* The dict appended at lines 180-187.
OpenaiTool(func_decl) ==
    [type |-> "function",
     function |-> [name |-> Get(func_decl, "name", "unknown"),
                   description |-> Get(func_decl, "description", ""),
                   parameters |-> Get(func_decl, "parameters", "{}")]]

\* The loop over one tool's functionDeclarations (lines 178-187).
RECURSIVE AppendDeclarations(_, _)
AppendDeclarations(openai_tools, function_declarations) ==
    IF function_declarations = <<>>
    THEN openai_tools
    ELSE AppendDeclarations(
             Append(openai_tools, OpenaiTool(Head(function_declarations))),
             Tail(function_declarations))

\* The loop over tools (lines 176-187).
RECURSIVE FlattenTools(_, _)
FlattenTools(tools, openai_tools) ==
    IF tools = <<>>
    THEN openai_tools
    ELSE FlattenTools(
             Tail(tools),
             AppendDeclarations(openai_tools,
                 Get(Head(tools), "functionDeclarations", <<>>)))

\* A plausible slip: the keys are set without testing the flattened list.
WithToolsUnchecked(request, openai_tools) ==
    request @@ [tools |-> openai_tools, tool_choice |-> "auto"]

\* if openai_tools: set 'tools' and 'tool_choice' (lines 189-191).
WithTools(request, openai_tools) ==
    IF openai_tools # <<>>
    THEN request @@ [tools |-> openai_tools, tool_choice |-> "auto"]
    ELSE request

ConvertGeminiToOpenai(request) ==
    IF ~IsMapping(request)
    THEN Raise(<<"Error converting Gemini to OpenAI format: ",
                 "object has no attribute 'get'">>)
    ELSE LET contents == Get(request, "contents", <<>>)
             tools == Get(request, "tools", <<>>)
             generation_config == Get(request, "generationConfig", [x \in {} |-> x])
             base == [model |-> OPENAI_MODEL,
                      messages |-> ConvertContents(contents, <<>>),
                      stream |-> FALSE,
                      temperature |-> Get(generation_config, "temperature", "0.1"),
                      max_tokens |-> Get(generation_config, "maxOutputTokens", 4000)]
         IN  Ok(IF tools # <<>>
                THEN WithTools(base, FlattenTools(tools, <<>>))
                ELSE base)

-----------------------------------------------------------------------------
(* json.loads on a tool call's arguments (line 219).  The argument string  *)
(* is a sequence of JSON tokens; the decoder is a recursive-descent parser *)
(* over them and yields a tagged JSON value.                               *)

JObject(members) == [t |-> "object", members |-> members]

JArray(items) == [t |-> "array", items |-> items]

JNumber(tok) == [t |-> "number", lit |-> tok]

JString(tok) == [t |-> "string", lit |-> tok]

JNull == [t |-> "null"]

NumberTokens == {"1", "2"}

StringTokens == {"k", "q"}

ParseFail == [ok |-> FALSE]

Parsed(v, next) == [ok |-> TRUE, val |-> v, next |-> next]

RECURSIVE ParseValue(_, _)
RECURSIVE ParseMembers(_, _, _)
RECURSIVE ParseItems(_, _, _)

ParseValue(toks, i) ==
    IF i > Len(toks)
    THEN ParseFail
    ELSE CASE toks[i] = "{" ->
                  IF i + 1 <= Len(toks) /\ toks[i + 1] = "}"
                  THEN Parsed(JObject(<<>>), i + 2)
                  ELSE ParseMembers(toks, i + 1, <<>>)
           [] toks[i] = "[" ->
                  IF i + 1 <= Len(toks) /\ toks[i + 1] = "]"
                  THEN Parsed(JArray(<<>>), i + 2)
                  ELSE ParseItems(toks, i + 1, <<>>)
           [] toks[i] \in NumberTokens -> Parsed(JNumber(toks[i]), i + 1)
           [] toks[i] \in StringTokens -> Parsed(JString(toks[i]), i + 1)
           [] toks[i] = "null" -> Parsed(JNull, i + 1)
           [] OTHER -> ParseFail

ParseMembers(toks, i, members) ==
    IF i + 1 > Len(toks) \/ toks[i] \notin StringTokens \/ toks[i + 1] # ":"
    THEN ParseFail
    ELSE LET r == ParseValue(toks, i + 2)
         IN  IF ~r.ok \/ r.next > Len(toks)
             THEN ParseFail
             ELSE LET all == Append(members, [key |-> toks[i], value |-> r.val])
                  IN  CASE toks[r.next] = "," -> ParseMembers(toks, r.next + 1, all)
                        [] toks[r.next] = "}" -> Parsed(JObject(all), r.next + 1)
                        [] OTHER -> ParseFail

ParseItems(toks, i, items) ==
    LET r == ParseValue(toks, i)
    IN  IF ~r.ok \/ r.next > Len(toks)
        THEN ParseFail
        ELSE LET all == Append(items, r.val)
             IN  CASE toks[r.next] = "," -> ParseItems(toks, r.next + 1, all)
                   [] toks[r.next] = "]" -> Parsed(JArray(all), r.next + 1)
                   [] OTHER -> ParseFail

\* json.loads(s): TypeError when s is not a str, JSONDecodeError when the
\* text is not exactly one JSON value.
JsonLoads(s) ==
    IF ~s.isstr
    THEN Raise("TypeError")
    ELSE LET r == ParseValue(s.toks, 1)
         IN  IF r.ok /\ r.next = Len(s.toks) + 1
             THEN Ok(r.val)
             ELSE Raise("JSONDecodeError")

Str(toks) == [isstr |-> TRUE, toks |-> toks]

NotStr == [isstr |-> FALSE]

-----------------------------------------------------------------------------
(* _convert_openai_to_gemini (lines 198-255).                              *)

\* try: args = json.loads(function.get('arguments', '{}'))
\* except: args = {}                                   (lines 218-221)
ToolCallArgs(function) ==
    LET r == JsonLoads(Get(function, "arguments", Str(<<"{", "}">>)))
    IN  IF r.ok THEN r.val ELSE JObject(<<>>)

\* The part appended for one tool call (lines 217-228).
FunctionCallPart(tool_call) ==
    LET function == Get(tool_call, "function", [x \in {} |-> x])
    IN  [functionCall |-> [name |-> Get(function, "name", <<"unknown">>),
                           args |-> ToolCallArgs(function)]]

\* The loop over message['tool_calls'] (lines 216-228).
RECURSIVE AppendToolCalls(_, _)
AppendToolCalls(parts, tool_calls) ==
    IF tool_calls = <<>>
    THEN parts
    ELSE AppendToolCalls(Append(parts, FunctionCallPart(Head(tool_calls))),
                         Tail(tool_calls))

\* Truthiness of message.get(key): absent, None and empty are all falsy.
Truthy(d, k) == k \in DOMAIN d /\ d[k] # <<>>

\* Lines 208-228.
ResponseParts(message) ==
    LET textParts == IF Truthy(message, "content")
                     THEN <<[text |-> message.content]>>
                     ELSE <<>>
    IN  IF Truthy(message, "tool_calls")
        THEN AppendToolCalls(textParts, message.tool_calls)
        ELSE textParts

\* A plausible slip: every normal completion reason counts as a stop.
FinishReasonLenient(choice) ==
    IF Get(choice, "finish_reason", "stop") \in {"stop", "length"}
    THEN "STOP"
    ELSE "OTHER"

\* Lines 230-231.
GeminiFinishReason(choice) ==
    IF Get(choice, "finish_reason", "stop") = "stop" THEN "STOP" ELSE "OTHER"

\* choice = choices[0] (line 205)
FirstChoice(choices) == choices[1]

\* Lines 233-250.
GeminiResponse(response, choice) ==
    LET usage == Get(response, "usage", [x \in {} |-> x])
    IN  [candidates |->
             <<[content |-> [parts |-> ResponseParts(
                                           Get(choice, "message", [x \in {} |-> x])),
                             role |-> "model"],
                finishReason |-> GeminiFinishReason(choice),
                index |-> 0,
                safetyRatings |-> <<>>]>>,
         usageMetadata |->
             [promptTokenCount |-> Get(usage, "prompt_tokens", 0),
              candidatesTokenCount |-> Get(usage, "completion_tokens", 0),
              totalTokenCount |-> Get(usage, "total_tokens", 0)]]

\* A plausible slip: an answer without choices is passed on as an empty
\* candidate instead of being refused.
ConvertOpenaiToGeminiDegraded(response) ==
    IF ~IsMapping(response)
    THEN Raise(<<"Error converting OpenAI to Gemini format: ",
                 "object has no attribute 'get'">>)
    ELSE LET choices == Get(response, "choices", <<>>)
         IN  Ok(GeminiResponse(response,
                    IF choices = <<>> THEN [x \in {} |-> x] ELSE choices[1]))

ConvertOpenaiToGemini(response) ==
    IF ~IsMapping(response)
    THEN Raise(<<"Error converting OpenAI to Gemini format: ",
                 "object has no attribute 'get'">>)
    ELSE LET choices == Get(response, "choices", <<>>)
         IN  IF choices = <<>>
             THEN Raise(<<"Error converting OpenAI to Gemini format: ",
                          "No choices in OpenAI response">>)
             ELSE Ok(GeminiResponse(response, FirstChoice(choices)))

-----------------------------------------------------------------------------
(* Inputs of the translator harness.                                       *)

TextA == <<" ", "a">>

TextB == <<"b", "\n">>

TextBlank == <<" ">>

FcLookup == [functionCall |-> [name |-> <<"lookup">>, args |-> JObject(<<>>)]]

FcNoName == [functionCall |-> [args |-> JObject(<<>>)]]

\* The shapes a contents entry's parts can take: none, blank text, text that
\* needs trimming, a function call alone (named and unnamed), text and
\* function call in both orders, several text parts, one part with both keys.
PartLists ==
    { <<>>,
      <<[text |-> TextBlank]>>,
      <<[text |-> TextA]>>,
      <<FcLookup>>,
      <<FcNoName>>,
      <<[text |-> TextA], FcLookup>>,
      <<FcLookup, [text |-> TextB]>>,
      <<[text |-> TextBlank], [text |-> <<"\n">>]>>,
      <<[text |-> TextA], [text |-> TextBlank], [text |-> TextB]>>,
      <<[text |-> TextB] @@ FcNoName>> }

Entries ==
    {[role |-> r, parts |-> p] : r \in {"user", "model"}, p \in PartLists}
        \cup {[role |-> "system", parts |-> <<[text |-> TextA]>>],
              [parts |-> <<[text |-> TextA]>>],
              [role |-> "user"]}

F1 == [name |-> "f1", description |-> "d1", parameters |-> "schema1"]

F2 == [name |-> "f2"]

FNoName == [description |-> "d3"]

DeclLists == {<<>>, <<F1>>, <<F2>>, <<F1, F2>>, <<FNoName>>}

ToolSet ==
    {[functionDeclarations |-> d] : d \in DeclLists}
        \cup {[googleSearch |-> "on"]}

SimpleContents == <<[role |-> "user", parts |-> <<[text |-> TextA]>>]>>

GenerationConfigs ==
    {[temperature |-> "0.7"], [maxOutputTokens |-> 100],
     [temperature |-> "0.7", maxOutputTokens |-> 100]}

\* Requests vary in their contents, in their tools, or in their
\* generationConfig: the code reads the three independently.
ReqInputs ==
    {[contents |-> c] : c \in SeqsUpTo(Entries, MaxContents)}
        \cup {[contents |-> SimpleContents, tools |-> t] :
                  t \in SeqsUpTo(ToolSet, MaxTools)}
        \cup {[contents |-> SimpleContents, generationConfig |-> g] :
                  g \in GenerationConfigs}
        \cup {[tools |-> <<[functionDeclarations |-> <<F1>>]>>]}

ArgsObject == Str(<<"{", "k", ":", "1", "}">>)

ArgsArray == Str(<<"[", "1", "]">>)

ArgsBroken == Str(<<"{", "k", ":">>)

Functions ==
    {[name |-> <<"f">>, arguments |-> a] :
         a \in {ArgsObject, ArgsArray, ArgsBroken, NotStr}}
        \cup {[name |-> <<"f">>], [arguments |-> ArgsObject]}

ToolCalls == {[function |-> f] : f \in Functions} \cup {[id |-> "call_1"]}

ToolCallLists == SeqsUpTo(ToolCalls, MaxToolCalls)

Messages ==
    {[content |-> c, tool_calls |-> t] :
         c \in {<<>>, <<"hi">>}, t \in ToolCallLists}
        \cup {[tool_calls |-> t] : t \in ToolCallLists}
        \cup {[content |-> c] : c \in {<<>>, <<"hi">>}}
        \cup {[refusal |-> "no"]}

FinishReasons == {"stop", "length", "<None>"}

FirstChoices ==
    {[message |-> m, finish_reason |-> f] : m \in Messages, f \in FinishReasons}
        \cup {[message |-> m] : m \in Messages}
        \cup {[finish_reason |-> f] : f \in FinishReasons}

\* Choices after the first: the translation must not read them.
OtherChoices ==
    {[message |-> [content |-> <<"other">>], finish_reason |-> "length"],
     [message |-> [content |-> <<"other">>], finish_reason |-> "stop"]}

Usage == [prompt_tokens |-> 3, completion_tokens |-> 4, total_tokens |-> 7]

PlainChoice == [message |-> [content |-> <<"hi">>], finish_reason |-> "stop"]

RespInputs ==
    {[choices |-> <<c>> \o rest] :
         c \in FirstChoices, rest \in SeqsUpTo(OtherChoices, MaxChoices - 1)}
        \cup {[choices |-> <<>>], [usage |-> Usage],
              [choices |-> <<PlainChoice>>, usage |-> Usage],
              [choices |-> <<PlainChoice>>, usage |-> [prompt_tokens |-> 3]]}

-----------------------------------------------------------------------------
(* Request paths.  A path is the sequence of its characters, so that the   *)
(* substring tests of _is_gemini_api_request are computed on the text.     *)

\* 'generateContent' (line 132)
NeedleGenerateContent ==
    <<"g", "e", "n", "e", "r", "a", "t", "e", "C", "o", "n", "t", "e",
    "n", "t">>

\* '/v1/models/' (line 133)
NeedleV1Models ==
    <<"/", "v", "1", "/", "m", "o", "d", "e", "l", "s", "/">>

\* '/v1beta/' (line 134)
NeedleV1Beta ==
    <<"/", "v", "1", "b", "e", "t", "a", "/">>

\* '/health' (line 55)
PathHealth ==
    <<"/", "h", "e", "a", "l", "t", "h">>

\* "/v1beta/models/foo:generateContent"
PathGenerate ==
    <<"/", "v", "1", "b", "e", "t", "a", "/", "m", "o", "d", "e", "l",
    "s", "/", "f", "o", "o", ":", "g", "e", "n", "e", "r", "a", "t", "e",
    "C", "o", "n", "t", "e", "n", "t">>

\* "/v1/chat/completions"
PathChat ==
    <<"/", "v", "1", "/", "c", "h", "a", "t", "/", "c", "o", "m", "p",
    "l", "e", "t", "i", "o", "n", "s">>

\* "/a/v1/models/m"
PathModels ==
    <<"/", "a", "/", "v", "1", "/", "m", "o", "d", "e", "l", "s", "/",
    "m">>

\* "/v1beta/x"
PathBeta ==
    <<"/", "v", "1", "b", "e", "t", "a", "/", "x">>

\* "/m:generateContent?alt=sse"
PathAction ==
    <<"/", "m", ":", "g", "e", "n", "e", "r", "a", "t", "e", "C", "o",
    "n", "t", "e", "n", "t", "?", "a", "l", "t", "=", "s", "s", "e">>

\* "/v1beta-unrelated"
PathBetaUnrelated ==
    <<"/", "v", "1", "b", "e", "t", "a", "-", "u", "n", "r", "e", "l",
    "a", "t", "e", "d">>

Paths ==
    {PathHealth, PathGenerate, PathChat, PathModels, PathBeta, PathAction,
     PathBetaUnrelated}

\* needle in s, scanning s from position i.
RECURSIVE FindFrom(_, _, _)
FindFrom(needle, s, i) ==
    IF i + Len(needle) - 1 > Len(s)
    THEN FALSE
    ELSE IF SubSeq(s, i, i + Len(needle) - 1) = needle
         THEN TRUE
         ELSE FindFrom(needle, s, i + 1)

\* Python's substring test: needle in s.
In(needle, s) == FindFrom(needle, s, 1)

\* A plausible slip: one of the three substrings is forgotten.
IsGeminiApiRequestTwoNeedles(path) ==
    \/ In(NeedleGenerateContent, path)
    \/ In(NeedleV1Beta, path)

\* _is_gemini_api_request (lines 130-134)
IsGeminiApiRequest(path) ==
    \/ In(NeedleGenerateContent, path)
    \/ In(NeedleV1Models, path)
    \/ In(NeedleV1Beta, path)

-----------------------------------------------------------------------------
(* The server before its first request (main, lines 301-307).              *)

HandlerInit ==
    /\ pc = "idle"
    /\ req = None
    /\ connUp = FALSE
    /\ wire = <<>>
    /\ gemini_request = None
    /\ openai_request = None
    /\ openai_response = None
    /\ gemini_response = None
    /\ exc = None
    /\ upstream = None
    /\ decoded = FALSE
    /\ calls = 0
    /\ served = 0

-----------------------------------------------------------------------------
(* Inbound requests and upstream answers.                                  *)

\* Bytes in each request body the clients send.
BodyBytes == 2

Body(utf8, json, value) ==
    [nbytes |-> BodyBytes, utf8 |-> utf8, json |-> json, value |-> value]

BodyBadUtf8 == Body(FALSE, FALSE, None)

BodyNotJson == Body(TRUE, FALSE, None)

BodyList == Body(TRUE, TRUE, NonMapping)

BodyChat == Body(TRUE, TRUE, [contents |-> SimpleContents])

BodyBlank ==
    Body(TRUE, TRUE,
         [contents |-> <<[role |-> "user", parts |-> <<[text |-> TextBlank]>>]>>])

BodyTools ==
    Body(TRUE, TRUE,
         [contents |-> <<[role |-> "user", parts |-> <<[text |-> TextA]>>],
                         [role |-> "model", parts |-> <<FcLookup>>]>>,
          tools |-> <<[functionDeclarations |-> <<F1>>]>>])

Bodies == {BodyBadUtf8, BodyNotJson, BodyList, BodyChat, BodyBlank, BodyTools}

\* A header value with what int() makes of it.
IntText(n) == [isint |-> TRUE, n |-> n]

NotIntText == [isint |-> FALSE, n |-> 0]

\* Content-Length as sent: absent, not a number, negative, shorter than the
\* body, exact, longer than the body.
HeaderSets ==
    {[x \in {} |-> x], [ContentLength |-> NotIntText]}
        \cup {[ContentLength |-> IntText(n)] :
                  n \in {-1, BodyBytes - 1, BodyBytes, BodyBytes + 1}}

Requests ==
    {[method |-> m, path |-> p, headers |-> [x \in {} |-> x], body |-> BodyNotJson] :
         m \in {"GET", "OPTIONS"}, p \in Paths}
        \cup {[method |-> "POST", path |-> p, headers |-> h, body |-> b] :
                  p \in Paths \ {PathHealth}, h \in HeaderSets, b \in Bodies}

\* What the target API does with the outbound call.
Answer(status, json_ctype, json, value) ==
    [transport_error |-> FALSE, status_code |-> status,
     json_ctype |-> json_ctype, json |-> json, value |-> value]

TransportError ==
    [transport_error |-> TRUE, status_code |-> 0, json_ctype |-> FALSE,
     json |-> FALSE, value |-> None]

ToolChoice ==
    [message |-> [tool_calls |-> <<[function |-> [name |-> <<"f">>,
                                                   arguments |-> ArgsBroken]]>>],
     finish_reason |-> "tool_calls"]

UpstreamOutcomes ==
    { TransportError,
      Answer(401, TRUE, TRUE, [error |-> "invalid_api_key"]),
      Answer(500, FALSE, FALSE, None),
      Answer(429, TRUE, FALSE, None),
      Answer(201, TRUE, TRUE, [choices |-> <<PlainChoice>>]),
      Answer(200, TRUE, FALSE, None),
      Answer(200, TRUE, TRUE, NonMapping),
      Answer(200, TRUE, TRUE, [usage |-> Usage]),
      Answer(200, TRUE, TRUE, [choices |-> <<>>]),
      Answer(200, TRUE, TRUE, [choices |-> <<PlainChoice>>, usage |-> Usage]),
      Answer(200, TRUE, TRUE, [choices |-> <<ToolChoice>>]) }

-----------------------------------------------------------------------------
(* _make_openai_request (lines 257-282).                                   *)

\* response.json()
ResponseJson(response) ==
    IF response.json THEN Ok(response.value) ELSE Raise(<<"JSONDecodeError">>)

\* A plausible slip: the status code is not tested before the body is used.
MakeOpenaiRequestAnyStatus(outcome) ==
    IF outcome.transport_error
    THEN Raise(<<"OpenAI request failed: ", "timeout">>)
    ELSE ResponseJson(outcome)

MakeOpenaiRequest(outcome) ==
    IF outcome.transport_error
    THEN Raise(<<"OpenAI request failed: ", "timeout">>)
    ELSE IF outcome.status_code # 200
         THEN IF outcome.json_ctype /\ ~ResponseJson(outcome).ok
              THEN ResponseJson(outcome)
              ELSE Raise(<<"OpenAI API error: ", "status", " - ", "error_data">>)
         ELSE ResponseJson(outcome)

-----------------------------------------------------------------------------
(* Responses written by the handler.                                       *)

ContentTypeJson == <<"Content-Type", "application/json">>

AllowOrigin == <<"Access-Control-Allow-Origin", "*">>

\* do_OPTIONS (lines 47-51)
OptionsHeaders ==
    {AllowOrigin,
     <<"Access-Control-Allow-Methods", "GET, POST, PUT, DELETE, OPTIONS">>,
     <<"Access-Control-Allow-Headers", "Content-Type, Authorization">>}

\* do_GET, /health (lines 56-59)
HealthHeaders == {ContentTypeJson, AllowOrigin}

\* do_GET, other paths (lines 69-71)
NotFoundHeaders == {ContentTypeJson}

\* do_POST, not a Gemini endpoint (lines 79-82)
NotGeminiHeaders == {ContentTypeJson, AllowOrigin}

\* do_POST, success (lines 107-110)
SuccessHeaders == {ContentTypeJson, AllowOrigin}

\* A plausible slip: the error response forgets the CORS header.
ErrorHeadersNoCors == {ContentTypeJson}

\* do_POST, except clause (lines 124-127)
ErrorHeaders == {ContentTypeJson, AllowOrigin}

\* Lines 61-66; the timestamp is whatever the clock says.
HealthResponse ==
    [status |-> "healthy", proxy |-> "openai-gpt4", model |-> OPENAI_MODEL,
     timestamp |-> "<now>"]

\* Line 72
NotFoundBody == [error |-> "Not found"]

\* Line 83
NotGeminiBody == [error |-> "Not a Gemini API endpoint"]

\* Lines 116-122
ErrorResponse(e) ==
    [error |-> [code |-> 500,
                message |-> <<"Proxy error: ">> \o e.msg,
                status |-> "INTERNAL_ERROR"]]

Exception(msg) == [msg |-> msg]

HeadEvent(status, headers) ==
    [kind |-> "head", status |-> status, headers |-> headers, ok |-> connUp]

BodyEvent(json) == [kind |-> "body", json |-> json, ok |-> connUp]

-----------------------------------------------------------------------------
(* The server loop and the handler, one action per step between two        *)
(* blocking operations.  A write to the client succeeds iff the client's   *)
(* connection is still open, and raises otherwise.                         *)

locals == <<gemini_request, openai_request, openai_response, gemini_response>>

\* serve_forever accepts a connection and the request line and headers are
\* parsed (line 307).
Accept ==
    /\ pc = "idle"
    /\ served < MaxRequests
    /\ \E r \in Requests : req' = r
    /\ pc' = "dispatch"
    /\ connUp' = TRUE
    /\ UNCHANGED <<wire, locals, exc, upstream, decoded, calls, served, harnessVars>>

\* The client closes its connection.
ClientDisconnect ==
    /\ pc \notin {"idle", "done"}
    /\ connUp
    /\ connUp' = FALSE
    /\ UNCHANGED <<pc, req, wire, locals, exc, upstream, decoded, calls, served,
                   harnessVars>>

\* do_OPTIONS (lines 45-51): the status line and headers are flushed by
\* end_headers; an error raised by the write goes to the server loop.
DoOptions ==
    /\ pc = "dispatch"
    /\ req.method = "OPTIONS"
    /\ wire' = Append(wire, HeadEvent(200, OptionsHeaders))
    /\ pc' = "done"
    /\ UNCHANGED <<req, connUp, locals, exc, upstream, decoded, calls, served,
                   harnessVars>>

\* do_GET up to end_headers (lines 55-59 and 69-71).
DoGetHead ==
    /\ pc = "dispatch"
    /\ req.method = "GET"
    /\ wire' = Append(wire, IF req.path = PathHealth
                            THEN HeadEvent(200, HealthHeaders)
                            ELSE HeadEvent(404, NotFoundHeaders))
    /\ pc' = IF connUp THEN "get_body" ELSE "done"
    /\ UNCHANGED <<req, connUp, locals, exc, upstream, decoded, calls, served,
                   harnessVars>>

\* do_GET, the body (lines 61-67 and 72).
DoGetBody ==
    /\ pc = "get_body"
    /\ wire' = Append(wire, IF req.path = PathHealth
                            THEN BodyEvent(HealthResponse)
                            ELSE BodyEvent(NotFoundBody))
    /\ pc' = "done"
    /\ UNCHANGED <<req, connUp, locals, exc, upstream, decoded, calls, served,
                   harnessVars>>

\* do_POST, line 78: the endpoint test.
PostRoute ==
    /\ pc = "dispatch"
    /\ req.method = "POST"
    /\ pc' = IF IsGeminiApiRequest(req.path) THEN "post_read" ELSE "post404_head"
    /\ UNCHANGED <<req, connUp, wire, locals, exc, upstream, decoded, calls,
                   served, harnessVars>>

\* A write inside the try block: on failure the except clause runs.
TryWrite(event, next) ==
    /\ wire' = Append(wire, event)
    /\ IF connUp
       THEN pc' = next /\ exc' = exc
       ELSE pc' = "except" /\ exc' = Exception(<<"Broken pipe">>)

\* do_POST, lines 79-82.
Post404Head ==
    /\ pc = "post404_head"
    /\ TryWrite(HeadEvent(404, NotGeminiHeaders), "post404_body")
    /\ UNCHANGED <<req, connUp, locals, upstream, decoded, calls, served,
                   harnessVars>>

\* do_POST, lines 83-84.
Post404Body ==
    /\ pc = "post404_body"
    /\ TryWrite(BodyEvent(NotGeminiBody), "done")
    /\ UNCHANGED <<req, connUp, locals, upstream, decoded, calls, served,
                   harnessVars>>

ContentLength == Get(req.headers, "ContentLength", IntText(0))

\* rfile.read(n) returns once n bytes have arrived or the client has closed;
\* a negative n reads to the end of the stream.
ReadReturns ==
    IF ContentLength.isint
    THEN (ContentLength.n >= 0 /\ ContentLength.n <= req.body.nbytes) \/ ~connUp
    ELSE TRUE

\* Lines 87-93: the request body as decoded, or the error raised on the way.
\* A body cut short by Content-Length is not a JSON document.
ReadAndDecode ==
    IF ~ContentLength.isint
    THEN Raise(<<"invalid literal for int()">>)
    ELSE IF ContentLength.n >= 0 /\ ContentLength.n < req.body.nbytes
         THEN Raise(<<"JSONDecodeError">>)
         ELSE IF ~req.body.utf8
              THEN Raise(<<"UnicodeDecodeError">>)
              ELSE IF ~req.body.json
                   THEN Raise(<<"JSONDecodeError">>)
                   ELSE Ok(req.body.value)

\* do_POST, lines 87-94: read the body, decode it, translate the request.
PostRead ==
    /\ pc = "post_read"
    /\ ReadReturns
    /\ decoded' = ContentLength.isint
    /\ LET body == ReadAndDecode
           translated == IF body.ok THEN ConvertGeminiToOpenai(body.val) ELSE body
       IN  /\ gemini_request' = IF body.ok THEN body.val ELSE gemini_request
           /\ IF translated.ok
              THEN /\ openai_request' = translated.val
                   /\ pc' = "post_call"
                   /\ exc' = exc
              ELSE /\ openai_request' = openai_request
                   /\ pc' = "except"
                   /\ exc' = Exception(translated.err)
    /\ UNCHANGED <<req, connUp, wire, openai_response, gemini_response, upstream,
                   calls, served, harnessVars>>

\* do_POST, lines 99-102: the outbound call returns (an answer, an error or
\* a timeout) and the answer is translated back.
PostCall ==
    /\ pc = "post_call"
    /\ \E outcome \in UpstreamOutcomes :
         /\ upstream' = outcome
         /\ LET answer == MakeOpenaiRequest(outcome)
                translated == IF answer.ok
                              THEN ConvertOpenaiToGemini(answer.val)
                              ELSE answer
            IN  /\ openai_response' = IF answer.ok THEN answer.val
                                      ELSE openai_response
                /\ IF translated.ok
                   THEN /\ gemini_response' = translated.val
                        /\ pc' = "post200_head"
                        /\ exc' = exc
                   ELSE /\ gemini_response' = gemini_response
                        /\ pc' = "except"
                        /\ exc' = Exception(translated.err)
    /\ calls' = calls + 1
    /\ UNCHANGED <<req, connUp, wire, gemini_request, openai_request, decoded,
                   served, harnessVars>>

\* do_POST, lines 107-110.
Post200Head ==
    /\ pc = "post200_head"
    /\ TryWrite(HeadEvent(200, SuccessHeaders), "post200_body")
    /\ UNCHANGED <<req, connUp, locals, upstream, decoded, calls, served,
                   harnessVars>>

\* do_POST, line 111.
Post200Body ==
    /\ pc = "post200_body"
    /\ TryWrite(BodyEvent(gemini_response), "done")
    /\ UNCHANGED <<req, connUp, locals, upstream, decoded, calls, served,
                   harnessVars>>

\* do_POST, lines 113-127: the except clause up to end_headers.  An error
\* raised here leaves the handler and goes to the server loop.
ExceptHead ==
    /\ pc = "except"
    /\ wire' = Append(wire, HeadEvent(500, ErrorHeaders))
    /\ pc' = IF connUp THEN "except_body" ELSE "done"
    /\ UNCHANGED <<req, connUp, locals, exc, upstream, decoded, calls, served,
                   harnessVars>>

\* do_POST, line 128.
ExceptBody ==
    /\ pc = "except_body"
    /\ wire' = Append(wire, BodyEvent(ErrorResponse(exc)))
    /\ pc' = "done"
    /\ UNCHANGED <<req, connUp, locals, exc, upstream, decoded, calls, served,
                   harnessVars>>

\* The handler has returned, or its error was reported by the server loop:
\* the connection is closed and serve_forever goes on (line 307).
Finish ==
    /\ pc = "done"
    /\ pc' = "idle"
    /\ req' = None
    /\ connUp' = FALSE
    /\ wire' = <<>>
    /\ gemini_request' = None
    /\ openai_request' = None
    /\ openai_response' = None
    /\ gemini_response' = None
    /\ exc' = None
    /\ upstream' = None
    /\ decoded' = FALSE
    /\ calls' = 0
    /\ served' = served + 1
    /\ UNCHANGED harnessVars

ServerStep ==
    \/ DoOptions
    \/ DoGetHead
    \/ DoGetBody
    \/ PostRoute
    \/ Post404Head
    \/ Post404Body
    \/ PostRead
    \/ PostCall
    \/ Post200Head
    \/ Post200Body
    \/ ExceptHead
    \/ ExceptBody
    \/ Finish

Init ==
    /\ HandlerInit
    /\ tpc = "off"
    /\ tin = None
    /\ tout = None

Next ==
    \/ Accept
    \/ ClientDisconnect
    \/ DoOptions
    \/ DoGetHead
    \/ DoGetBody
    \/ PostRoute
    \/ Post404Head
    \/ Post404Body
    \/ PostRead
    \/ PostCall
    \/ Post200Head
    \/ Post200Body
    \/ ExceptHead
    \/ ExceptBody
    \/ Finish

Spec == Init /\ [][Next]_vars

\* The server's own steps are always taken in the end; that the outbound
\* call returns or times out is PostCall's share of it.  Clients are under
\* no obligation.
FairSpec == Spec /\ WF_vars(ServerStep)

-----------------------------------------------------------------------------
(* Translator harness: the two pure translations applied to every input.   *)

TranslateRequest ==
    /\ tpc = "request"
    /\ tout' = ConvertGeminiToOpenai(tin)
    /\ tpc' = "request_done"
    /\ UNCHANGED <<tin, handlerVars>>

ReqInit ==
    /\ HandlerInit
    /\ tpc = "request"
    /\ tin \in ReqInputs
    /\ tout = None

ReqNext == TranslateRequest

ReqSpec == ReqInit /\ [][ReqNext]_vars

TranslateResponse ==
    /\ tpc = "response"
    /\ tout' = ConvertOpenaiToGemini(tin)
    /\ tpc' = "response_done"
    /\ UNCHANGED <<tin, handlerVars>>

RespInit ==
    /\ HandlerInit
    /\ tpc = "response"
    /\ tin \in RespInputs
    /\ tout = None

RespNext == TranslateResponse

RespSpec == RespInit /\ [][RespNext]_vars

-----------------------------------------------------------------------------
(* Properties of the request translation.                                  *)

\* What one part contributes to an entry's content.
C6_Piece(part) ==
    (IF "text" \in DOMAIN part THEN part.text ELSE <<>>)
        \o (IF "functionCall" \in DOMAIN part
            THEN <<"\n", "[Function Call: ">>
                     \o (IF "name" \in DOMAIN part.functionCall
                         THEN part.functionCall.name
                         ELSE <<"unknown">>)
                     \o <<"]">>
            ELSE <<>>)

RECURSIVE C6_Concat(_)
C6_Concat(parts) ==
    IF parts = <<>> THEN <<>> ELSE C6_Piece(Head(parts)) \o C6_Concat(Tail(parts))

\* s without its leading and trailing whitespace.
C6_Trim(s) ==
    LET solid == {i \in 1..Len(s) : s[i] \notin {" ", "\n"}}
    IN  IF solid = {}
        THEN <<>>
        ELSE SubSeq(s, CHOOSE i \in solid : \A j \in solid : i <= j,
                       CHOOSE i \in solid : \A j \in solid : i >= j)

C6_Text(entry) ==
    C6_Trim(C6_Concat(IF "parts" \in DOMAIN entry THEN entry.parts ELSE <<>>))

C6_Kept(contents) ==
    {i \in 1..Len(contents) :
        /\ "role" \in DOMAIN contents[i]
        /\ contents[i].role \in {"user", "model"}
        /\ C6_Text(contents[i]) # <<>>}

\* C6: the translated messages are exactly the kept entries of contents, in
\* order: an entry is kept iff its role is user or model and its content
\* (text parts and function-call markers concatenated in order) is non-empty
\* after trimming; model becomes assistant, and the content is trimmed.  So
\* no message is empty, a blank entry gives no message, and an entry holding
\* only a function call is kept with the (trimmed) marker as its content.
C6_MessagesAreKeptEntries ==
    tpc = "request_done" =>
        /\ tout.ok
        /\ LET contents == IF "contents" \in DOMAIN tin THEN tin.contents ELSE <<>>
               kept == C6_Kept(contents)
               messages == tout.val.messages
           IN  /\ Len(messages) = Cardinality(kept)
               /\ \A i \in kept :
                      messages[Cardinality({j \in kept : j <= i})] =
                          [role |-> IF contents[i].role = "model"
                                    THEN "assistant" ELSE "user",
                           content |-> C6_Text(contents[i])]
               /\ \A k \in 1..Len(messages) : messages[k].content # <<>>
               /\ (contents = <<[role |-> "user", parts |-> <<[text |-> <<" ">>]>>]>>
                       => messages = <<>>)
               /\ (contents = <<[role |-> "model", parts |-> <<FcLookup>>]>>
                       => messages = <<[role |-> "assistant",
                                        content |-> <<"[Function Call: ",
                                                      "lookup", "]">>]>>)

\* A skipped system entry, then a model entry with text that needs trimming
\* on the right followed by a function call: one assistant message.
C6_Witness ==
    /\ tpc = "request_done"
    /\ "contents" \in DOMAIN tin
    /\ tin.contents = <<[role |-> "system", parts |-> <<[text |-> TextA]>>],
                        [role |-> "model", parts |-> <<FcLookup, [text |-> TextB]>>]>>
    /\ tout.ok
    /\ tout.val.messages =
           <<[role |-> "assistant",
              content |-> <<"[Function Call: ", "lookup", "]", "b">>]>>

C7_Declarations(tool) ==
    IF "functionDeclarations" \in DOMAIN tool THEN tool.functionDeclarations ELSE <<>>

\* Number of declarations in the first n tools.
RECURSIVE C7_Before(_, _)
C7_Before(tools, n) ==
    IF n = 0 THEN 0 ELSE C7_Before(tools, n - 1) + Len(C7_Declarations(tools[n]))

\* C7: the target request has tools iff it has tool_choice (always "auto"),
\* and has them iff some input tool declares a function; tools then holds
\* one entry per declaration, in input order.
C7_ToolsIffDeclarations ==
    tpc = "request_done" =>
        /\ tout.ok
        /\ LET tools == IF "tools" \in DOMAIN tin THEN tin.tools ELSE <<>>
               total == C7_Before(tools, Len(tools))
               r == tout.val
           IN  /\ ("tools" \in DOMAIN r) <=> ("tool_choice" \in DOMAIN r)
               /\ ("tools" \in DOMAIN r) <=> (total > 0)
               /\ "tool_choice" \in DOMAIN r => r.tool_choice = "auto"
               /\ "tools" \in DOMAIN r =>
                      /\ Len(r.tools) = total
                      /\ \A t \in 1..Len(tools) :
                           \A d \in 1..Len(C7_Declarations(tools[t])) :
                             LET decl == C7_Declarations(tools[t])[d]
                                 out == r.tools[C7_Before(tools, t - 1) + d]
                             IN  /\ out.type = "function"
                                 /\ out.function.name =
                                        (IF "name" \in DOMAIN decl
                                         THEN decl.name ELSE "unknown")

\* Two tools each declaring one function give exactly two entries, in order.
C7_Witness ==
    /\ tpc = "request_done"
    /\ "tools" \in DOMAIN tin
    /\ tin.tools = <<[functionDeclarations |-> <<F2>>],
                     [functionDeclarations |-> <<F1>>]>>
    /\ tout.ok
    /\ "tools" \in DOMAIN tout.val
    /\ Len(tout.val.tools) = 2
    /\ tout.val.tools[1].function.name = "f2"
    /\ tout.val.tools[2].function.name = "f1"
    /\ tout.val.tool_choice = "auto"

-----------------------------------------------------------------------------
(* Properties of the response translation.                                 *)

C8_HasChoices == "choices" \in DOMAIN tin /\ tin.choices # <<>>

\* The candidate is built from choices[0]: its text part, if any, is that
\* choice's content, and it is the only candidate, at index 0.
C8_OneCandidateFromFirstChoice ==
    /\ tout.ok
    /\ Len(tout.val.candidates) = 1
    /\ tout.val.candidates[1].index = 0
    /\ LET first == tin.choices[1]
           parts == tout.val.candidates[1].content.parts
           content == IF "message" \in DOMAIN first
                         /\ "content" \in DOMAIN first.message
                      THEN first.message.content ELSE <<>>
       IN  IF content # <<>>
           THEN parts # <<>> /\ parts[1] = [text |-> content]
           ELSE \A i \in 1..Len(parts) : "text" \notin DOMAIN parts[i]

\* C8 as stated: finishReason is STOP exactly when choices[0].finish_reason
\* is the string "stop", and OTHER for anything else, an absent
\* finish_reason included.
C8_AbsentFinishReasonIsOther ==
    (tpc = "response_done" /\ C8_HasChoices) =>
        /\ C8_OneCandidateFromFirstChoice
        /\ tout.val.candidates[1].finishReason =
               (IF "finish_reason" \in DOMAIN tin.choices[1]
                   /\ tin.choices[1].finish_reason = "stop"
                THEN "STOP" ELSE "OTHER")

\* C8, amended: one candidate at index 0 built from choices[0]; finishReason
\* is STOP when choices[0].finish_reason is "stop" or is absent, and OTHER
\* for every other value.
C8_FinishReasonStopOrAbsent ==
    (tpc = "response_done" /\ C8_HasChoices) =>
        /\ C8_OneCandidateFromFirstChoice
        /\ tout.val.candidates[1].finishReason =
               (IF "finish_reason" \notin DOMAIN tin.choices[1]
                   \/ tin.choices[1].finish_reason = "stop"
                THEN "STOP" ELSE "OTHER")

\* Two choices, the first without finish_reason and the second with
\* "length": the candidate carries the first one's text and says STOP.
C8_Witness ==
    /\ tpc = "response_done"
    /\ C8_HasChoices
    /\ Len(tin.choices) = 2
    /\ tin.choices[1] = [message |-> [content |-> <<"hi">>]]
    /\ tin.choices[2].finish_reason = "length"
    /\ tout.ok
    /\ tout.val.candidates[1].finishReason = "STOP"
    /\ tout.val.candidates[1].content.parts = <<[text |-> <<"hi">>]>>

C9_ToolCalls ==
    LET first == tin.choices[1]
    IN  IF "message" \in DOMAIN first /\ "tool_calls" \in DOMAIN first.message
        THEN first.message.tool_calls
        ELSE <<>>

C9_IsFunctionCall(part) == "functionCall" \in DOMAIN part

\* C9: every tool call gives exactly one functionCall part, in order, the
\* arguments never make the translation fail, and the emitted args is always
\* a mapping (the empty one when the arguments are not valid JSON).
C9_ArgsAlwaysMapping ==
    (tpc = "response_done" /\ C8_HasChoices) =>
        /\ tout.ok
        /\ LET calls_ == C9_ToolCalls
               emitted == SelectSeq(tout.val.candidates[1].content.parts,
                                    C9_IsFunctionCall)
           IN  /\ Len(emitted) = Len(calls_)
               /\ \A i \in 1..Len(emitted) :
                      /\ emitted[i].functionCall.args.t = "object"
                      /\ ("function" \in DOMAIN calls_[i]
                          /\ "arguments" \in DOMAIN calls_[i].function
                          /\ calls_[i].function.arguments = ArgsBroken)
                             => emitted[i].functionCall.args = JObject(<<>>)

-----------------------------------------------------------------------------
(* Properties of the handler.                                              *)

InPost == pc # "idle" /\ req.method = "POST"

IsHeadWith(event, status) == event.kind = "head" /\ event.status = status

HeadIndexes == {i \in 1..Len(wire) : wire[i].kind = "head"}

\* path = pre \o needle \o post for some pre and post.
C4_Contains(path, needle) ==
    \E i \in 0..Len(path) : \E j \in i..Len(path) : SubSeq(path, i + 1, j) = needle

C4_Matches(path) ==
    \/ C4_Contains(path, <<"g", "e", "n", "e", "r", "a", "t", "e",
                           "C", "o", "n", "t", "e", "n", "t">>)
    \/ C4_Contains(path, <<"/", "v", "1", "/", "m", "o", "d", "e", "l", "s", "/">>)
    \/ C4_Contains(path, <<"/", "v", "1", "b", "e", "t", "a", "/">>)

\* The handler has answered the request as not being a source-API request.
C4_Refused == pc = "post404_head" \/ \E i \in HeadIndexes : wire[i].status = 404

\* C4: a POST is handled as a source-API request iff its path contains
\* "generateContent", "/v1/models/" or "/v1beta/"; any other POST is answered
\* 404 with {error: "Not a Gemini API endpoint"}, its body is never decoded
\* and no outbound call is made.
C4_RouteBySubstring ==
    (InPost /\ pc # "dispatch") =>
        /\ C4_Matches(req.path) <=> ~C4_Refused
        /\ req.path = PathGenerate => ~C4_Refused
        /\ req.path = PathChat => C4_Refused
        /\ C4_Refused =>
               /\ ~decoded
               /\ calls = 0
               /\ gemini_request = None
               /\ pc = "done" =>
                      /\ IsHeadWith(wire[1], 404)
                      /\ wire[1].ok =>
                             /\ wire[2].kind = "body"
                             /\ wire[2].json = [error |-> "Not a Gemini API endpoint"]

\* POST /v1/chat/completions has been answered 404 without reading the body.
C4_Witness ==
    /\ pc = "done"
    /\ req.method = "POST"
    /\ req.path = PathChat
    /\ req.body = BodyChat
    /\ Len(wire) = 2
    /\ IsHeadWith(wire[1], 404)
    /\ wire[2].ok
    /\ ~decoded
    /\ calls = 0

C1_ContentLength ==
    IF "ContentLength" \in DOMAIN req.headers
    THEN req.headers.ContentLength
    ELSE [isint |-> TRUE, n |-> 0]

\* The body, as far as Content-Length lets it be read, is a JSON document.
C1_BodyDecodes ==
    /\ C1_ContentLength.isint
    /\ (C1_ContentLength.n < 0 \/ C1_ContentLength.n >= req.body.nbytes)
    /\ req.body.utf8
    /\ req.body.json

C1_RequestTranslates == "nonmapping" \notin DOMAIN req.body.value

C1_UpstreamAnswered200 ==
    /\ "status_code" \in DOMAIN upstream
    /\ ~upstream.transport_error
    /\ upstream.status_code = 200
    /\ upstream.json

C1_ResponseTranslates ==
    /\ "nonmapping" \notin DOMAIN upstream.value
    /\ "choices" \in DOMAIN upstream.value
    /\ upstream.value.choices # <<>>

C1_AllStagesSucceeded ==
    /\ C1_BodyDecodes
    /\ C1_RequestTranslates
    /\ C1_UpstreamAnswered200
    /\ C1_ResponseTranslates

\* The response starts with a 500 whose body, once the status line went
\* out, is the error envelope.
C1_AnsweredWithEnvelope ==
    /\ Len(wire) >= 1
    /\ IsHeadWith(wire[1], 500)
    /\ wire[1].ok =>
           /\ Len(wire) = 2
           /\ wire[2].kind = "body"
           /\ wire[2].json.error.code = 500
           /\ wire[2].json.error.status = "INTERNAL_ERROR"
           /\ Len(wire[2].json.error.message) > 1
           /\ wire[2].json.error.message[1] = "Proxy error: "

\* C1: for a POST to a matching path, a failure of any stage (decoding the
\* body, translating the request, the outbound call, translating the
\* response) is answered 500 with the error envelope, and a 200 is sent only
\* when the body decoded, the request translated, the upstream answered 200
\* and the response translated.
C1_FailureIs500SuccessIs200 ==
    (InPost /\ C4_Matches(req.path)) =>
        /\ \A i \in HeadIndexes : wire[i].status = 200 => C1_AllStagesSucceeded
        /\ (pc = "done" /\ ~C1_AllStagesSucceeded) => C1_AnsweredWithEnvelope

\* The upstream refused the call with 401 and the client has the envelope.
C1_Witness ==
    /\ pc = "done"
    /\ req.method = "POST"
    /\ req.path = PathGenerate
    /\ "status_code" \in DOMAIN upstream
    /\ upstream.status_code = 401
    /\ Len(wire) = 2
    /\ IsHeadWith(wire[1], 500)
    /\ wire[2].ok
    /\ wire[2].json.error.message[2] = "OpenAI API error: "

\* C2 as stated: every response, for every method and outcome, carries both
\* Access-Control-Allow-Origin: * and Content-Type: application/json.
C2_EveryResponseCarriesBoth ==
    \A i \in HeadIndexes :
        /\ <<"Access-Control-Allow-Origin", "*">> \in wire[i].headers
        /\ <<"Content-Type", "application/json">> \in wire[i].headers

C2_HasHeader(event, name) == \E h \in event.headers : h[1] = name

\* C2, amended: every response to a POST (200, 404, 500) and the 200 to
\* GET /health carry both headers; the OPTIONS response carries the CORS
\* header and no Content-Type; the 404 to a GET carries the Content-Type and
\* no CORS header.
C2_PostAndHealthCarryBoth ==
    \A i \in HeadIndexes :
        /\ (req.method = "POST" \/ (req.method = "GET" /\ wire[i].status = 200)) =>
               /\ <<"Access-Control-Allow-Origin", "*">> \in wire[i].headers
               /\ <<"Content-Type", "application/json">> \in wire[i].headers
        /\ req.method = "OPTIONS" =>
               /\ <<"Access-Control-Allow-Origin", "*">> \in wire[i].headers
               /\ ~C2_HasHeader(wire[i], "Content-Type")
        /\ (req.method = "GET" /\ wire[i].status = 404) =>
               /\ <<"Content-Type", "application/json">> \in wire[i].headers
               /\ ~C2_HasHeader(wire[i], "Access-Control-Allow-Origin")

\* A POST that failed has had its 500 written out.
C2_Witness ==
    /\ pc = "done"
    /\ req.method = "POST"
    /\ Len(wire) = 2
    /\ IsHeadWith(wire[1], 500)
    /\ wire[1].ok
    /\ wire[2].ok

\* C3: for a POST the handler begins at most one response; in particular,
\* once a 200 or 404 status line has gone out, no later failure (one while
\* writing the body included) makes it start a second status line.
C3_NoSecondStatusLine ==
    InPost =>
        \A i \in HeadIndexes : \A j \in HeadIndexes :
            (wire[i].status \in {200, 404} /\ wire[i].ok) => j <= i

C5_NoChoices ==
    /\ C1_UpstreamAnswered200
    /\ "nonmapping" \notin DOMAIN upstream.value
    /\ ("choices" \notin DOMAIN upstream.value \/ upstream.value.choices = <<>>)

\* C5: when the target's answer has no choices (absent or empty), the client
\* gets a 500 with status INTERNAL_ERROR and never a 200 or a candidate.
C5_NoChoicesIs500 ==
    (InPost /\ C5_NoChoices) =>
        /\ \A i \in 1..Len(wire) :
               /\ wire[i].kind = "head" => wire[i].status = 500
               /\ wire[i].kind = "body" => "candidates" \notin DOMAIN wire[i].json
        /\ pc = "done" =>
               /\ C1_AnsweredWithEnvelope
               /\ wire[1].ok =>
                      wire[2].json.error.message =
                          <<"Proxy error: ",
                            "Error converting OpenAI to Gemini format: ",
                            "No choices in OpenAI response">>

\* The upstream answered 200 with an empty choices list; the client has the
\* 500 envelope.
C5_Witness ==
    /\ pc = "done"
    /\ req.method = "POST"
    /\ "status_code" \in DOMAIN upstream
    /\ upstream.value = [choices |-> <<>>]
    /\ Len(wire) = 2
    /\ IsHeadWith(wire[1], 500)
    /\ wire[2].ok
    /\ wire[2].json.error.status = "INTERNAL_ERROR"

\* The client has (part of) an answer.
C10_Answered == \E i \in HeadIndexes : wire[i].ok

\* C10: given that outbound calls return or time out, every request is
\* answered (to a client that is still there), and the server then goes on
\* to the next request.
C10_EveryRequestAnswered ==
    /\ (pc = "dispatch") ~> (pc = "done" /\ (C10_Answered \/ ~connUp))
    /\ (pc = "done") ~> (pc = "idle")

=============================================================================
